---- MODULE Spec2Model ----
(***************************************************************************)
(* Task-graph orchestration of the strata agent.                           *)
(*                                                                         *)
(* HelixPlanner (modules/planner/friday_planner.py) keeps the node map,    *)
(* the dependency graph and the execution queue; FridayAgent.run           *)
(* (agents/friday_agent.py) pops the queue and, per subtask, completes it, *)
(* replans it or gives up.  Python dicts are insertion ordered, so the key *)
(* order of dependency_graph is part of the state (dep_keys).              *)
(***************************************************************************)
EXTENDS Integers, Sequences, FiniteSets, TLC

\* ---------------------------------------------------------------- bounds
NumIds == 3          \* size of the pool of node ids the LLM may name
MaxSpecLen == 2      \* entries of one JSON decomposition or replanning patch
MaxDeps == 1         \* length of a "dependencies" list in the LLM's JSON
MaxTasks == 3        \* cap on task_total (entries counted in one run)
MaxEdges == 1        \* edge-list length up to which a patch past MaxTasks is drawn

\* ------------------------------------------------------ program constants
MaxRetries == 3      \* @api_exception_mechanism(max_retries=3)

IdNames == <<"A", "B", "C", "D", "E", "F">>
Ids == {IdNames[i] : i \in 1..NumIds}

NoId == "none"
CycleMsg == "Cycle detected: sort failed."

\* ---------------------------------------------------------------- helpers
Distinct(s) == \A i, j \in 1..Len(s) : i # j => s[i] # s[j]

Range(s) == {s[i] : i \in 1..Len(s)}

Put(f, k, v) == (k :> v) @@ f

Pos(s, x) == CHOOSE i \in 1..Len(s) : s[i] = x

\* the JSON the language model returns: an ordered mapping
\* label -> {description, type, dependencies}
PlanTypes == {"Shell"}

Labels(structure) == [i \in 1..Len(structure) |-> structure[i].label]

Min(a, b) == IF a < b THEN a ELSE b

\* Ids are opaque names, so a behaviour stays a behaviour when ids are
\* renamed: a name that is new to the planner is always the first unused id
\* of the pool
NamesFor(known) ==
    LET unused == {i \in 1..NumIds : IdNames[i] \notin known}
    IN  (known \cap Ids) \cup
        (IF unused = {} THEN {}
         ELSE {IdNames[CHOOSE i \in unused : \A j \in unused : i <= j]})

RECURSIVE DepListsFor(_, _)
DepListsFor(known, n) ==
    {<<>>} \cup
    (IF n = 0 THEN {}
     ELSE UNION {{<<m>> \o rest :
                     rest \in {r \in DepListsFor(known \cup {m}, n - 1) : m \notin Range(r)}} :
                 m \in NamesFor(known)})

\* the answers of at most n entries over distinct labels
RECURSIVE StructuresFor(_, _, _)
StructuresFor(known, labels, n) ==
    {<<>>} \cup
    (IF n = 0 THEN {}
     ELSE UNION {UNION {UNION {{<<[label |-> l, deps |-> d, type |-> t]>> \o rest :
                                   rest \in StructuresFor(known \cup {l} \cup Range(d),
                                                          labels \cup {l}, n - 1)} :
                               t \in PlanTypes} :
                        d \in DepListsFor(known \cup {l}, MaxDeps)} :
                 l \in NamesFor(known) \ labels})

Structures(n, known) == StructuresFor(known, {}, Min(n, MaxSpecLen))

\* ------------------------------------------------------------- ActionNode
ActionNode(type) ==
    [status |-> FALSE, next_action |-> {}, node_type |-> type, return_val |-> ""]

\* the empty planner: __init__ and clear_state
EmptyPlanner ==
    [task_total |-> 0, node_map |-> <<>>, dep_keys |-> <<>>,
     dependency_graph |-> <<>>, err |-> FALSE]

\* for dep in props['dependencies']: node_map[dep].next_action[label] = ...
\* (KeyError at the first dep that is not yet in node_map)
RECURSIVE LinkDeps(_, _, _)
LinkDeps(nm, label, deps) ==
    IF deps = <<>> THEN [node_map |-> nm, err |-> FALSE]
    ELSE IF Head(deps) \notin DOMAIN nm THEN [node_map |-> nm, err |-> TRUE]
    ELSE LinkDeps([nm EXCEPT ![Head(deps)].next_action = @ \cup {label}],
                  label, Tail(deps))

\* one turn of the loop shared by _build_graph and _insert_task_node
AddEntry(g, e) ==
    LET nm1 == Put(g.node_map, e.label, ActionNode(e.type))
        keys1 == IF e.label \in DOMAIN g.dependency_graph
                 THEN g.dep_keys ELSE Append(g.dep_keys, e.label)
        dg1 == Put(g.dependency_graph, e.label, e.deps)
        l == LinkDeps(nm1, e.label, e.deps)
    IN  [task_total |-> g.task_total + 1, node_map |-> l.node_map,
         dep_keys |-> keys1, dependency_graph |-> dg1, err |-> l.err]

RECURSIVE BuildGraph(_, _)
BuildGraph(g, structure) ==
    IF structure = <<>> THEN g
    ELSE LET g1 == AddEntry(g, Head(structure))
         IN  IF g1.err THEN g1 ELSE BuildGraph(g1, Tail(structure))

\* _insert_task_node: err is "none", "KeyError" (unknown dependency) or
\* "IndexError" (empty patch: list(patch_data.keys())[-1])
InsertTaskNode(g, patch_data, parent_task) ==
    LET g1 == BuildGraph(g, patch_data)
    IN  IF g1.err THEN [g |-> g1, raised |-> "KeyError"]
        ELSE IF patch_data = <<>> THEN [g |-> g1, raised |-> "IndexError"]
        ELSE LET final_label == patch_data[Len(patch_data)].label
             IN  [g |-> [g1 EXCEPT !.dependency_graph[parent_task] =
                                        Append(@, final_label)],
                  raised |-> "none"]

\* ---------------------------------------------------------- _resolve_order
EmptyDag == [keys |-> <<>>, ch |-> <<>>, err |-> FALSE]

DagSetDefault(dag, n) ==
    IF n \in DOMAIN dag.ch THEN dag
    ELSE [dag EXCEPT !.keys = Append(@, n), !.ch = Put(@, n, <<>>)]

DagAppend(dag, p, node) ==
    LET d == DagSetDefault(dag, p)
    IN  [d EXCEPT !.ch[p] = Append(@, node)]

ParentPendingDoneToo(nm, p) == TRUE

\* if not self.node_map[p].status
ParentPending(nm, p) == ~nm[p].status

RECURSIVE DagParents(_, _, _, _)
DagParents(dag, nm, node, parents) ==
    IF parents = <<>> THEN dag
    ELSE LET p == Head(parents)
         IN  IF p \notin DOMAIN nm THEN [dag EXCEPT !.err = TRUE]
             ELSE IF ParentPending(nm, p)
                  THEN DagParents(DagAppend(dag, p, node), nm, node, Tail(parents))
                  ELSE DagParents(dag, nm, node, Tail(parents))

RECURSIVE BuildDag(_, _, _, _)
BuildDag(dag, nm, dg, keys) ==
    IF keys = <<>> \/ dag.err THEN dag
    ELSE LET node == Head(keys)
         IN  IF node \notin DOMAIN nm THEN [dag EXCEPT !.err = TRUE]
             ELSE IF ~nm[node].status
                  THEN BuildDag(DagParents(DagSetDefault(dag, node), nm, node, dg[node]),
                                nm, dg, Tail(keys))
                  ELSE BuildDag(dag, nm, dg, Tail(keys))

\* in_deg = {n: 0 for n in dag}; for n in dag: for ch in dag[n]: in_deg[ch] += 1
InDeg(dag) ==
    LET slots == UNION {{<<k, i>> : i \in DOMAIN dag.ch[k]} : k \in DOMAIN dag.ch}
    IN  [n \in DOMAIN dag.ch |->
            Cardinality({ki \in slots : dag.ch[ki[1]][ki[2]] = n})]

IsReadyEarly(d) == d \in {0, 1}

\* if in_deg[nxt] == 0
IsReady(d) == d = 0

EnqueueLeft(q, n) == <<n>> \o q

\* q.append(nxt)
Enqueue(q, n) == Append(q, n)

RECURSIVE Relax(_, _)
Relax(st, children) ==
    IF children = <<>> THEN st
    ELSE LET nxt == Head(children)
             d == st.in_deg[nxt] - 1
         IN  Relax([in_deg |-> [st.in_deg EXCEPT ![nxt] = d],
                    q |-> IF IsReady(d) THEN Enqueue(st.q, nxt) ELSE st.q],
                   Tail(children))

RECURSIVE Kahn(_, _, _)
Kahn(st, out, ch) ==
    IF st.q = <<>> THEN out
    ELSE LET curr == Head(st.q)
         IN  Kahn(Relax([in_deg |-> st.in_deg, q |-> Tail(st.q)], ch[curr]),
                  Append(out, curr), ch)

\* result of _resolve_order: the new execution_queue, whether it raised
\* KeyError, and the value it returns to its caller
ResolveOrder(nm, dg, keys) ==
    LET dag == BuildDag(EmptyDag, nm, dg, keys)
    IN  IF dag.err THEN [queue |-> <<>>, raised |-> TRUE, ret |-> "raise"]
        ELSE LET deg == InDeg(dag)
                 q0 == SelectSeq(dag.keys, LAMBDA n : deg[n] = 0)
                 out == Kahn([in_deg |-> deg, q |-> q0], <<>>, dag.ch)
             IN  [queue |-> out, raised |-> FALSE,
                  ret |-> IF Len(out) = Len(dag.keys) THEN "None" ELSE CycleMsg]

\* ------------------------------------------------------------------ state
VARIABLES
    task_total,         \* HelixPlanner.task_total
    node_map,           \* HelixPlanner.node_map: id -> ActionNode
    dep_keys,           \* key order of HelixPlanner.dependency_graph
    dependency_graph,   \* HelixPlanner.dependency_graph: id -> list of ids
    execution_queue,    \* HelixPlanner.execution_queue
    phase,              \* position of FridayAgent.run
    attempts,           \* tries of break_down_goal used by the retry wrapper
    last,               \* the planner call just made and how it ended
    pre,                \* dependency_graph and node ids before that call
    sub,                \* run(): the subtask popped from the queue
    execution_state,    \* what executing() returned for sub
    result,             \* self_refining: result (state.result, repair.result)
    status,             \* status of the latest judgement (judging, repairing)
    score,              \* score of the latest judgement
    repair_attempts,    \* repairing(): attempts
    judged,             \* the judge was invoked on the latest execution of sub
    stored,             \* ids persisted in the tool repository
    inner_monologue,    \* FridayAgent.inner_monologue.result
    process,            \* SubprocessEnv.process: "None" or the child started
    retries,            \* SubprocessEnv.step: retries
    done,               \* SubprocessEnv.done (threading.Event)
    output_queue,       \* SubprocessEnv.output_queue
    step_pc,            \* position of the generator SubprocessEnv.step
    chunks,             \* the chunks SubprocessEnv.step has yielded so far
    readers,            \* the two handle_stream_output threads of the child
    child,              \* what the child prints for the code written to it
    set_count,          \* calls of done.set() since the code was written
    restarts,           \* calls of start_process made by the retry loop
    calls,              \* calls of SubprocessEnv.step made so far
    lines_read,         \* unscripted lines the reader threads have read
    puts,               \* every message put on output_queue, with its code
    chunk_src,          \* for each message step() took from the queue, its place in puts
    iopub,              \* messages waiting on kc.iopub_channel
    finish_flag,        \* PythonJupyterEnv.finish_flag
    msg_queue,          \* PythonJupyterEnv.msg_queue
    kernel_pc,          \* position of PythonJupyterEnv (__init__, step)
    listener,           \* the iopub_listener thread of the running step
    request,            \* number of the execute request of the latest step
    published,          \* outputs the kernel published for that request
    finished_on,        \* request of the idle message that set finish_flag
    kernel_chunks,      \* the chunks PythonJupyterEnv.step has yielded so far
    shell_code,         \* preprocess_shell: the code passed in, as its lines
    shell_out,          \* preprocess_shell: the code returned, as its lines
    retry_budget,       \* retry_on_failure: max_tries of the decorator
    retry_pc,           \* position of a call of the wrapped function
    retry_log,          \* how each invocation of func ended, in order
    retry_result,       \* what wrapped() handed to its caller
    fold_pc,            \* position of Env.step in stream mode
    fold_seen,          \* the chunks _streaming_run has yielded so far
    fold_state,         \* Env.step: state.result and state.error
    records,            \* RegistryHandler._records: name -> {code, description}
    index,              \* RegistryHandler._index: the collection, id -> text
    component_index,    \* the file component_index.json
    files,              \* the files impl/<name>.py and docs/<name>.txt
    registry_last       \* the last call on the registry and how it ended

plannerVars == <<task_total, node_map, dep_keys, dependency_graph>>

agentVars == <<sub, execution_state, result, status, score, repair_attempts, judged,
               stored, inner_monologue>>

subprocessVars == <<process, retries, done, output_queue, step_pc, chunks, readers,
                    child, set_count, restarts, calls, lines_read, puts,
                    chunk_src>>

kernelVars == <<iopub, finish_flag, msg_queue, kernel_pc, listener, request,
                published, finished_on, kernel_chunks>>

shellVars == <<shell_code, shell_out>>

retryVars == <<retry_budget, retry_pc, retry_log, retry_result>>

foldVars == <<fold_pc, fold_seen, fold_state>>

registryVars == <<records, index, component_index, files, registry_last>>

utilVars == <<shellVars, retryVars, foldVars, registryVars>>

envVars == <<subprocessVars, kernelVars, utilVars>>

coreVars == <<task_total, node_map, dep_keys, dependency_graph, execution_queue,
              phase, attempts, last, pre, sub, execution_state, result, status,
              score, repair_attempts, judged, stored, inner_monologue>>

vars == <<coreVars, envVars>>

Planner ==
    [task_total |-> task_total, node_map |-> node_map, dep_keys |-> dep_keys,
     dependency_graph |-> dependency_graph, err |-> FALSE]

SetPlanner(g) ==
    /\ task_total' = g.task_total
    /\ node_map' = g.node_map
    /\ dep_keys' = g.dep_keys
    /\ dependency_graph' = g.dependency_graph

\* ------------------------------------------- graph predicates of the claims
Pending == {n \in DOMAIN node_map : ~node_map[n].status}

PendingDeps(n) ==
    IF n \in DOMAIN dependency_graph
    THEN Range(dependency_graph[n]) \cap Pending ELSE {}

\* the dependency relation restricted to not-done nodes
DepRel == {nd \in Pending \X Pending : nd[2] \in PendingDeps(nd[1])}

RECURSIVE Closure(_, _)
Closure(R, k) ==
    IF k = 0 THEN R
    ELSE Closure(R \cup {ac \in Pending \X Pending :
                            \E b \in Pending : <<ac[1], b>> \in R /\ <<b, ac[2]>> \in R},
                 k - 1)

Acyclic == \A n \in Pending : <<n, n>> \notin Closure(DepRel, NumIds)

\* ------------------------------------------------------- history variables
\* op: the planner call; structure/anchor: its arguments; built: the
\* _build_graph/_insert_task_node part ended without exception; raised: the
\* exception the whole call ended with; order_ret: what _resolve_order
\* returned ("not_called", "raise", "None" or the cycle message)
Call(op, structure, anchor, built, raised, order_ret) ==
    [op |-> op, structure |-> structure, anchor |-> anchor, built |-> built,
     raised |-> raised, order_ret |-> order_ret]

NoCall(op, anchor) == Call(op, <<>>, anchor, FALSE, "none", "not_called")

\* every id the planner has seen: nodes and ids named in edge lists
Known ==
    DOMAIN node_map \cup UNION {Range(dependency_graph[n]) : n \in DOMAIN dependency_graph}

Snapshot == [dependency_graph |-> dependency_graph, nodes |-> DOMAIN node_map,
             acyclic |-> Acyclic]

\* what executing() hands to self_refining: None after an exception, else an
\* ExecutionState whose state.error is the error text of the run ("n/a" for
\* a QA node, whose state is None)
ExecNone == [ret |-> "None", error |-> "n/a"]

ExecState(e) == [ret |-> "ExecutionState", error |-> e]

\* InnerMonologue(): the result of a new monologue
InnerMonologue == ""

ResetLocals ==
    /\ sub' = NoId
    /\ execution_state' = ExecNone
    /\ result' = ""
    /\ status' = ""
    /\ score' = 0
    /\ repair_attempts' = 0
    /\ judged' = FALSE

\* SubprocessEnv.__init__
InitSubprocess ==
    /\ process = "None"
    /\ retries = 0
    /\ done = FALSE
    /\ output_queue = <<>>
    /\ step_pc = "idle"
    /\ chunks = <<>>
    /\ readers = [stdout |-> "none", stderr |-> "none"]
    /\ child = [mode |-> "none", emitted |-> 0]
    /\ set_count = 0
    /\ restarts = 0
    /\ calls = 0
    /\ lines_read = 0
    /\ puts = <<>>
    /\ chunk_src = <<>>

NoRequest == -1      \* no idle message has set finish_flag

\* before PythonJupyterEnv.__init__
InitKernel ==
    /\ iopub = <<>>
    /\ finish_flag = FALSE
    /\ msg_queue = <<>>
    /\ kernel_pc = "new"
    /\ listener = "none"
    /\ request = 0
    /\ published = <<>>
    /\ finished_on = NoRequest
    /\ kernel_chunks = <<>>

\* no call of preprocess_shell yet
InitShell ==
    /\ shell_code = <<>>
    /\ shell_out = <<>>

NoResult == [kind |-> "none", what |-> <<"None", 0>>]

\* no call of a decorated function yet
InitRetry ==
    /\ retry_budget = 0
    /\ retry_pc = "idle"
    /\ retry_log = <<>>
    /\ retry_result = NoResult

\* EnvState.__init__: result and error are empty texts
NewEnvState == [result |-> <<>>, error |-> <<>>]

InitFold ==
    /\ fold_pc = "idle"
    /\ fold_seen = <<>>
    /\ fold_state = NewEnvState

\* RegistryHandler.__init__ on a new repository: component_index.json holds
\* {} and the collection is empty, so the count assertion passes
InitRegistry ==
    /\ records = <<>>
    /\ index = <<>>
    /\ component_index = <<>>
    /\ files = <<>>
    /\ registry_last = [op |-> "__init__", name |-> NoId, raised |-> "none"]

Init ==
    /\ InitRegistry
    /\ InitSubprocess
    /\ InitKernel
    /\ InitShell
    /\ InitRetry
    /\ InitFold
    /\ task_total = 0
    /\ node_map = <<>>
    /\ dep_keys = <<>>
    /\ dependency_graph = <<>>
    /\ execution_queue = <<>>
    /\ phase = "idle"
    /\ attempts = 0
    /\ last = NoCall("init", NoId)
    /\ pre = [dependency_graph |-> <<>>, nodes |-> {}, acyclic |-> TRUE]
    /\ sub = NoId
    /\ execution_state = ExecNone
    /\ result = ""
    /\ status = ""
    /\ score = 0
    /\ repair_attempts = 0
    /\ judged = FALSE
    /\ stored = {}
    /\ inner_monologue = InnerMonologue

ClearStateKeepsQueue ==
    /\ UNCHANGED envVars
    /\ phase = "idle"
    /\ SetPlanner(EmptyPlanner)
    /\ phase' = "planning"
    /\ attempts' = 0
    /\ last' = NoCall("clear_state", NoId)
    /\ pre' = Snapshot
    /\ ResetLocals
    /\ inner_monologue' = InnerMonologue
    /\ UNCHANGED <<execution_queue, stored>>

\* run(): self.planner.reset_plan(); self.reset_inner_monologue(); then
\* planning() starts
ClearState ==
    /\ UNCHANGED envVars
    /\ phase = "idle"
    /\ SetPlanner(EmptyPlanner)
    /\ execution_queue' = <<>>
    /\ phase' = "planning"
    /\ attempts' = 0
    /\ last' = NoCall("clear_state", NoId)
    /\ pre' = Snapshot
    /\ ResetLocals
    /\ inner_monologue' = InnerMonologue
    /\ UNCHANGED stored

\* one try of break_down_goal under the retry wrapper: _build_graph, then
\* _resolve_order; an exception leaves what was written so far and is retried
\* until MaxRetries tries are used, after which planning() returns []
BreakDownGoalCall(structure) ==
    LET g == BuildGraph(Planner, structure)
        o == ResolveOrder(g.node_map, g.dependency_graph, g.dep_keys)
        failed == g.err \/ o.raised
    IN  /\ SetPlanner(g)
        /\ execution_queue' = IF g.err THEN execution_queue ELSE o.queue
        /\ attempts' = attempts + 1
        /\ phase' = IF failed /\ attempts + 1 < MaxRetries
                    THEN "planning" ELSE "running"
        /\ last' = Call("break_down_goal", structure, NoId, ~g.err,
                        IF failed THEN "KeyError" ELSE "none",
                        IF g.err THEN "not_called" ELSE o.ret)
        /\ pre' = Snapshot

BreakDownGoal ==
    /\ UNCHANGED envVars
    /\ phase = "planning"
    /\ attempts < MaxRetries
    /\ \E structure \in Structures(MaxTasks - task_total, Known) :
          BreakDownGoalCall(structure)
    /\ UNCHANGED agentVars

\* state.result of an execution, or the answer of a QA node: nothing, or a
\* text that carries the block <return>v</return>
Results == {"", "<return>v</return>"}

\* extract_information(output, "<return>", "</return>"): the list of the
\* texts between the tags (written as Python prints it)
ExtractInformation(output) == IF output = "<return>v</return>" THEN "['v']" ELSE "[]"

\* patch_tool_info(node_id, output, code, done=True, category): the return
\* value is only taken when category is 'Code'; self.node_map[node_id]._status = done
PatchToolInfo(node_id, output, category) ==
    /\ node_map' = [node_map EXCEPT
                       ![node_id].return_val =
                           IF output # "" /\ category = "Code"
                           THEN ExtractInformation(output) ELSE @,
                       ![node_id].status = TRUE]
    /\ last' = NoCall("patch_tool_info", node_id)
    /\ pre' = Snapshot
    /\ UNCHANGED <<task_total, dep_keys, dependency_graph>>

\* run(): one turn of the while loop whose subtask ends Complete:
\* pop(0), then self_refining calls update_tool(..., True, ...)
RunComplete ==
    /\ UNCHANGED envVars
    /\ phase = "running"
    /\ execution_queue # <<>>
    /\ \E output \in Results :
          PatchToolInfo(Head(execution_queue), output,
                        node_map[Head(execution_queue)].node_type)
    /\ execution_queue' = Tail(execution_queue)
    /\ UNCHANGED <<phase, attempts>>
    /\ UNCHANGED agentVars

\* revise_execution_path(reason, active_task, tools_meta) called from
\* replanning(), which swallows its exceptions; rest is the queue that is
\* left when the call raises before _resolve_order
\* task_total is incremented by _build_graph and read nowhere: the model
\* counts it up to MaxTasks and keeps it there
ReviseCall(patch_data, active_task, rest) ==
    LET r == InsertTaskNode(Planner, patch_data, active_task)
        o == ResolveOrder(r.g.node_map, r.g.dependency_graph, r.g.dep_keys)
    IN  /\ SetPlanner([r.g EXCEPT !.task_total = Min(@, MaxTasks)])
        /\ execution_queue' = IF r.raised # "none" THEN rest ELSE o.queue
        /\ last' = Call("revise_execution_path", patch_data, active_task,
                        r.raised = "none",
                        IF r.raised # "none" THEN r.raised
                        ELSE IF o.raised THEN "KeyError" ELSE "none",
                        IF r.raised # "none" THEN "not_called" ELSE o.ret)
        /\ pre' = Snapshot

\* run(): one turn of the while loop whose subtask ends Replan: pop(0), then
\* replanning() calls revise_execution_path
\* the patches the LLM may answer to a replanning of active_task: every
\* patch that keeps task_total within MaxTasks and, so that the bound does
\* not end a run the code would continue, the one-entry patches over the
\* label of an existing node while the edge list of active_task holds fewer
\* than MaxEdges ids
PatchesFor(active_task) ==
    {patch_data \in Structures(MaxSpecLen, Known) :
        \/ task_total + Len(patch_data) <= MaxTasks
        \/ /\ Len(patch_data) = 1
           /\ Range(Labels(patch_data)) \subseteq DOMAIN node_map
           /\ Len(dependency_graph[active_task]) < MaxEdges}

ReviseExecutionPath ==
    /\ UNCHANGED envVars
    /\ phase = "running"
    /\ execution_queue # <<>>
    /\ \E patch_data \in PatchesFor(Head(execution_queue)) :
          ReviseCall(patch_data, Head(execution_queue), Tail(execution_queue))
    /\ UNCHANGED <<phase, attempts>>
    /\ UNCHANGED agentVars

\* run(): the subtask failed (repair attempts used up, or an exception): break
RunFailed ==
    /\ UNCHANGED envVars
    /\ phase = "running"
    /\ execution_queue # <<>>
    /\ execution_queue' = Tail(execution_queue)
    /\ phase' = "idle"
    /\ last' = NoCall("failed", Head(execution_queue))
    /\ pre' = Snapshot
    /\ UNCHANGED <<plannerVars, attempts>>
    /\ UNCHANGED agentVars

\* run(): while self.planner.sub_task_list is false: run returns
RunReturn ==
    /\ UNCHANGED envVars
    /\ phase = "running"
    /\ execution_queue = <<>>
    /\ phase' = "idle"
    /\ last' = NoCall("return", NoId)
    /\ pre' = Snapshot
    /\ UNCHANGED <<plannerVars, execution_queue, attempts>>
    /\ UNCHANGED agentVars

Next ==
    \/ ClearState
    \/ BreakDownGoal
    \/ RunComplete
    \/ ReviseExecutionPath
    \/ RunFailed
    \/ RunReturn

Spec == Init /\ [][Next]_vars

\* run() is one sequential loop: an iteration that can be taken is taken
RunStep == RunComplete \/ ReviseExecutionPath \/ RunFailed \/ RunReturn

SpecRunFair == Spec /\ WF_vars(RunStep)

TypeOK ==
    /\ task_total \in 0..MaxTasks
    /\ DOMAIN node_map \subseteq Ids
    /\ DOMAIN dependency_graph = Range(dep_keys)
    /\ DOMAIN dependency_graph = DOMAIN node_map
    /\ Range(execution_queue) \subseteq DOMAIN node_map

\* ------------------------------------------- FridayAgent, step by step
max_iter == 2        \* executor.max_iter (config.max_repair_iterations)

ScoreThreshold == 8  \* config.score (--score_threshold, default 8)

CodeTypes == {"Python", "Shell", "AppleScript"}

Types == CodeTypes \cup {"API", "QA"}

\* state.error of an execution: None (SessionSnapshot.fault's default), the
\* empty text (EnvState.error when nothing was written to stderr) or a text
ExecErrors == {"None", "", "stderr"}

\* the status the judge's JSON may carry; "Error" stands for every other text
JudgeStatuses == {"Complete", "Amend", "Replan", "Error"}

Scores == {ScoreThreshold - 1, ScoreThreshold}

\* decompositions the model lets the LLM return in the step-by-step agent:
\* the first ids of the pool in order, each depending on nothing or on the
\* entry before it; the first entry of any type
PlanEntry(i, chained, type) ==
    [label |-> IdNames[i],
     deps |-> IF chained /\ i > 1 THEN <<IdNames[i - 1]>> ELSE <<>>,
     type |-> type]

LaterTypes == {"Shell", "QA"}

AgentPlans ==
    UNION {{[i \in 1..k |-> PlanEntry(i, c[i], IF i = 1 THEN t ELSE u[i])] :
               c \in [1..k -> BOOLEAN], t \in Types, u \in [1..k -> LaterTypes]} :
           k \in 1..MaxSpecLen}

\* replanning patches: one entry, named like the replanned node or with the
\* first unused id, that depends on nothing or on the replanned node
FreshIds ==
    LET unused == {i \in 1..NumIds : IdNames[i] \notin DOMAIN node_map}
    IN  IF unused = {} THEN {}
        ELSE {IdNames[CHOOSE i \in unused : \A j \in unused : i <= j]}

AgentPatches ==
    {<<[label |-> l, deps |-> d, type |-> t]>> :
        l \in FreshIds \cup {sub}, t \in LaterTypes, d \in {<<>>, <<sub>>}}

\* the values of an input of a step: all of S when the step reads the input,
\* one value when it does not
IfRead(read, S, unread) == IF read THEN S ELSE {unread}

\* parse_json_block of a text without a ```json block
NoJsonFound == "No structured JSON found."

SentinelAsReturned == "No structured JSON found."

\* break_down_goal: if parsed_data != 'No JSON data found in the string.'
Sentinel == "No JSON data found in the string."

\* one try of break_down_goal whose answer carries no JSON: sys.exit() when
\* the parser's text is the sentinel; otherwise _build_graph is handed the
\* text, text.items() raises AttributeError before anything is written, and
\* the retry wrapper tries again; planning() catches the last exception and
\* returns []
BreakDownGoalNoJson ==
    /\ IF NoJsonFound = Sentinel
       THEN /\ phase' = "exited"
            /\ last' = Call("break_down_goal", <<>>, NoId, FALSE,
                            "SystemExit", "not_called")
            /\ UNCHANGED attempts
       ELSE /\ phase' = IF attempts + 1 < MaxRetries THEN "planning" ELSE "running"
            /\ last' = Call("break_down_goal", <<>>, NoId, FALSE,
                            "AttributeError", "not_called")
            /\ attempts' = attempts + 1
    /\ pre' = Snapshot
    /\ UNCHANGED <<plannerVars, execution_queue>>

\* run(): planning() under the retry wrapper of break_down_goal
AgentPlanning ==
    /\ UNCHANGED envVars
    /\ phase = "planning"
    /\ attempts < MaxRetries
    /\ \/ \E structure \in AgentPlans \cup {<<>>} : BreakDownGoalCall(structure)
       \/ BreakDownGoalNoJson
    /\ UNCHANGED agentVars

\* run(): sub = self.planner.sub_task_list.pop(0)
AgentPop ==
    /\ UNCHANGED envVars
    /\ phase = "running"
    /\ execution_queue # <<>>
    /\ sub' = Head(execution_queue)
    /\ execution_queue' = Tail(execution_queue)
    /\ phase' = "executing"
    /\ last' = NoCall("pop", Head(execution_queue))
    /\ execution_state' = ExecNone
    /\ result' = ""
    /\ status' = ""
    /\ score' = 0
    /\ repair_attempts' = 0
    /\ judged' = FALSE
    /\ attempts' = 0    \* the retry wrapper's counter ended with planning()
    /\ UNCHANGED <<plannerVars, pre, stored, inner_monologue>>

\* where an exception raised inside the while loop of run() ends: "idle"
\* when the except clause of friday_agent.py catches it and breaks, "raised"
\* when it leaves run(), as in friday2_agent.py, whose loop has no try
AbortOutcomes == {"idle", "raised"}

\* an exception is raised inside the while loop of run()
Abort ==
    /\ \E outcome \in AbortOutcomes : phase' = outcome
    /\ last' = NoCall("aborted", sub)
    /\ UNCHANGED <<plannerVars, execution_queue, attempts, pre, sub, stored, inner_monologue>>

\* executing(sub, task): get_pre_tasks_info reads node_map[dep] of every
\* dependency outside the try block; QA asks the LLM, API and code nodes
\* generate code and run it; an exception inside the try block returns None.
\* The API branch never binds `invoke`, so execute_tool(code, invoke, ...)
\* raises there.
AgentExecuting ==
    /\ UNCHANGED envVars
    /\ phase = "executing"
    /\ LET t == node_map[sub].node_type
       IN  IF ~(Range(dependency_graph[sub]) \subseteq DOMAIN node_map)
           THEN /\ Abort
                /\ UNCHANGED <<execution_state, result, status, score, repair_attempts, judged>>
           ELSE /\ \E ok \in BOOLEAN :
                   \E e \in IfRead(ok /\ t \in CodeTypes, ExecErrors, "None"),
                      r \in IfRead(ok /\ t # "API", Results, "") :
                      /\ execution_state' =
                             IF t = "API" \/ ~ok THEN ExecNone
                             ELSE IF t = "QA" THEN ExecState("n/a")
                             ELSE ExecState(e)
                      /\ result' = IF t = "API" \/ ~ok THEN "" ELSE r
                /\ judged' = FALSE
                /\ phase' = "refining"
                /\ last' = NoCall("executing", sub)
                /\ UNCHANGED <<plannerVars, execution_queue, attempts, pre, sub,
                               status, score, repair_attempts, stored, inner_monologue>>

\* self_refining, first part: get_all_state() of None raises; a code node is
\* judged (judging() turns an exception of judge_tool into status "Error");
\* any other node is complete at once
AgentJudging ==
    /\ UNCHANGED envVars
    /\ phase = "refining"
    /\ execution_state.ret # "None"
    /\ node_map[sub].node_type \in CodeTypes
    /\ \E raised \in BOOLEAN :
       \E st \in IfRead(~raised, JudgeStatuses, "Error"), sc \in IfRead(~raised, Scores, 0) :
          /\ status' = IF raised THEN "Error" ELSE st
          /\ score' = IF raised THEN 0 ELSE sc
    /\ judged' = TRUE
    /\ phase' = "judged"
    /\ last' = NoCall("judging", sub)
    /\ UNCHANGED <<plannerVars, execution_queue, attempts, pre, sub,
                   execution_state, result, repair_attempts, stored, inner_monologue>>

AgentRefineNone ==
    /\ UNCHANGED envVars
    /\ phase = "refining"
    /\ execution_state.ret = "None"
    /\ Abort
    /\ UNCHANGED <<execution_state, result, status, score, repair_attempts, judged>>

\* self_refining: if is_done: inner_monologue.result = result; update_tool(...)
MarkDone ==
    /\ inner_monologue' = result
    /\ PatchToolInfo(sub, result, node_map[sub].node_type)
    /\ phase' = "running"
    /\ UNCHANGED <<execution_queue, attempts, sub, execution_state, result, status,
                   score, repair_attempts, judged>>

\* self_refining: the else branches (a node that is not code; a judgement
\* that is neither Replan nor Amend)
AgentDoneAtOnce ==
    /\ UNCHANGED envVars
    /\ \/ /\ phase = "refining"
          /\ execution_state.ret # "None"
          /\ node_map[sub].node_type \notin CodeTypes
       \/ /\ phase = "judged"
          /\ status \notin {"Replan", "Amend"}
    /\ MarkDone
    /\ UNCHANGED stored

\* repairing(): the while loop was left, or never entered
LoopConditionOneMore == repair_attempts <= max_iter /\ status = "Amend"

\* repairing(): while attempts < self.executor.max_iter and status == "Amend"
LoopCondition == repair_attempts < max_iter /\ status = "Amend"

RepairLoopLeft ==
    /\ phase = "repairing"
    /\ ~LoopCondition

\* replanning(sub, critique) after a Replan of the first judgement or of the
\* repair loop: revise_execution_path with the LLM's patch; an answer
\* without JSON makes _insert_task_node raise before it changes anything;
\* need_replan: continue
AgentReplanning ==
    /\ UNCHANGED envVars
    /\ \/ phase = "judged" /\ status = "Replan"
       \/ RepairLoopLeft /\ status = "Replan"
    /\ \/ /\ \E patch_data \in AgentPatches :
                /\ task_total + Len(patch_data) <= MaxTasks
                /\ ReviseCall(patch_data, sub, execution_queue)
       \/ /\ last' = Call("revise_execution_path", <<>>, sub, FALSE,
                          "AttributeError", "not_called")
          /\ pre' = Snapshot
          /\ UNCHANGED <<plannerVars, execution_queue>>
    /\ phase' = "running"
    /\ UNCHANGED <<attempts, sub, execution_state, result, status, score,
                   repair_attempts, judged, stored, inner_monologue>>

\* self_refining: status == "Amend": repairing() starts with attempts = 0,
\* score = 0
AgentRepairStart ==
    /\ UNCHANGED envVars
    /\ phase = "judged"
    /\ status = "Amend"
    /\ phase' = "repairing"
    /\ repair_attempts' = 0
    /\ score' = 0
    /\ last' = NoCall("repairing", sub)
    /\ UNCHANGED <<plannerVars, execution_queue, attempts, pre, sub,
                   execution_state, result, status, judged, stored, inner_monologue>>

NoErrorIgnored(e) == e \in ExecErrors

\* repairing(): if state.error is None
NoError(e) == e = "None"

StatusOnErrorComplete == "Complete"

\* repairing(): else: status = "Amend" (the execution left an error)
StatusOnError == "Amend"

\* repairing(): one turn of the while loop: repair_tool, execute_tool, and,
\* if state.error is None, judge_tool; an exception of repair_tool or
\* judge_tool makes repairing() return None, and self_refining then raises
\* on repair.status
AgentRepairIter ==
    /\ UNCHANGED envVars
    /\ phase = "repairing"
    /\ LoopCondition
    /\ \E gen_ok \in BOOLEAN :
       \E e \in IfRead(gen_ok, ExecErrors, "None"), r \in IfRead(gen_ok, Results, "") :
       \E judge_ok \in IfRead(gen_ok /\ NoError(e), BOOLEAN, TRUE) :
       \E st \in IfRead(gen_ok /\ NoError(e) /\ judge_ok, JudgeStatuses, "Error"),
          sc \in IfRead(gen_ok /\ NoError(e) /\ judge_ok, Scores, 0) :
          IF ~gen_ok \/ (NoError(e) /\ ~judge_ok)
          THEN /\ Abort
               /\ repair_attempts' = repair_attempts + 1
               /\ execution_state' = IF gen_ok THEN ExecState(e) ELSE execution_state
               /\ result' = IF gen_ok THEN r ELSE result
               /\ judged' = (gen_ok /\ NoError(e))
               /\ UNCHANGED <<status, score>>
          ELSE /\ repair_attempts' = repair_attempts + 1
               /\ execution_state' = ExecState(e)
               /\ result' = r
               /\ judged' = (NoError(e))
               /\ status' = IF NoError(e) THEN st ELSE StatusOnError
               /\ score' = IF NoError(e) THEN sc ELSE score
               /\ last' = NoCall("repair_iteration", sub)
               /\ UNCHANGED <<plannerVars, execution_queue, attempts, pre,
                              sub, phase, stored, inner_monologue>>

ShouldStoreAnyScore == node_map[sub].node_type = "Python"

\* self_refining: if node_type == "Python" and is_done and repair.score >= self.score
ShouldStore == node_map[sub].node_type = "Python" /\ score >= ScoreThreshold

\* self_refining: repair.status == "Complete": is_done; a Python node whose
\* score reaches the threshold is stored first (catalog_tool: nothing when
\* the id exists, NotImplementedError when the code has no summary)
AgentRepairComplete ==
    /\ UNCHANGED envVars
    /\ RepairLoopLeft
    /\ status = "Complete"
    /\ IF ShouldStore /\ sub \notin stored
       THEN \/ /\ stored' = stored \cup {sub}
               /\ MarkDone
            \/ /\ Abort
               /\ UNCHANGED <<execution_state, result, status, score, repair_attempts, judged>>
       ELSE /\ MarkDone
            /\ UNCHANGED stored

RunAfterFailureContinue == "running"

\* run(): else: print(f"{sub} failed after ... repair attempts."); break
RunAfterFailure == "idle"

\* self_refining returns (False, False): run() reports the failure: break
AgentRepairFailed ==
    /\ UNCHANGED envVars
    /\ RepairLoopLeft
    /\ status \notin {"Complete", "Replan"}
    /\ phase' = RunAfterFailure
    /\ last' = NoCall("failed", sub)
    /\ UNCHANGED <<plannerVars, execution_queue, attempts, pre>>
    /\ UNCHANGED agentVars

NextAgent ==
    \/ ClearState
    \/ AgentPlanning
    \/ AgentPop
    \/ AgentExecuting
    \/ AgentJudging
    \/ AgentRefineNone
    \/ AgentDoneAtOnce
    \/ AgentReplanning
    \/ AgentRepairStart
    \/ AgentRepairIter
    \/ AgentRepairComplete
    \/ AgentRepairFailed
    \/ RunReturn

SpecAgent == Init /\ [][NextAgent]_vars

\* every call of the loop body (repair_tool, execute_tool, judge_tool) returns
\* or raises, so a turn of the while loop that can be taken is taken
SpecAgentFair == SpecAgent /\ WF_vars(AgentRepairIter)

\* ------------------------------------------- SubprocessEnv (Shell, AppleScript)
\* A string is the sequence of its pieces: marker texts, other text, and the
\* newline that readline leaves at the end of a line.
max_retries == 3     \* SubprocessEnv.step: max_retries

MaxLines == 2        \* lines the child prints when its output is not scripted

MaxSteps == 2        \* calls of SubprocessEnv.step

EndMarker == "##end_of_execution##"

\* the number int() reads from an active-line marker
LineNumber ==
    ("##active_line1##" :> 1) @@ ("##active_line2##" :> 2) @@
    ("##active_line3##" :> 3) @@ ("##active_line-1##" :> -1)

\* the marker texts that the pattern ##active_line\d+## matches
ActiveLinePattern == {m \in DOMAIN LineNumber : LineNumber[m] >= 0}

\* Shell.detect_active_line and AppleScript.detect_active_line: the number of
\* the first marker of the line, None when the line has no marker
DetectActiveLine(line) ==
    LET found == SelectSeq(line, LAMBDA piece : piece \in DOMAIN LineNumber)
    IN  IF found = <<>> THEN [none |-> TRUE, n |-> 0]
        ELSE [none |-> FALSE, n |-> LineNumber[found[1]]]

DetectEndOfExecution(line) == \E i \in DOMAIN line : line[i] = EndMarker

\* re.sub(r"##active_line\d+##", '', line)
ReSub(line) == SelectSeq(line, LAMBDA piece : piece \notin ActiveLinePattern)

RECURSIVE LStrip(_)
LStrip(s) == IF s # <<>> /\ Head(s) = "\n" THEN LStrip(Tail(s)) ELSE s

RECURSIVE RStrip(_)
RStrip(s) ==
    IF s # <<>> /\ s[Len(s)] = "\n" THEN RStrip(SubSeq(s, 1, Len(s) - 1)) ELSE s

\* line.replace('##end_of_execution##', '').strip()
ReplaceStrip(line) ==
    RStrip(LStrip(SelectSeq(line, LAMBDA piece : piece # EndMarker)))

OutputMessage(type, format, content) ==
    [type |-> type, format |-> format, content |-> content]

\* the body of the for loop of handle_stream_output for one line: the messages
\* it puts, whether it sets done, and whether the thread dies (the comparison
\* None >= 0 raises TypeError)
HandleLine(line, is_error) ==
    LET active == DetectActiveLine(line)
        none == [put |-> <<>>, set |-> FALSE, raised |-> FALSE]
    IN  IF active.none THEN [none EXCEPT !.raised = TRUE]
        ELSE IF active.n >= 0
        THEN [none EXCEPT !.put =
                 <<OutputMessage("console", "active_line", active.n)>> \o
                 (IF ReSub(line) # <<>>
                  THEN <<OutputMessage("console", "output", ReSub(line))>>
                  ELSE <<>>)]
        ELSE IF DetectEndOfExecution(line)
        THEN [none EXCEPT !.put =
                 IF ReplaceStrip(line) # <<>>
                 THEN <<OutputMessage("console", "output", ReplaceStrip(line))>>
                 ELSE <<>>,
                          !.set = TRUE]
        ELSE IF is_error /\ (\E i \in DOMAIN line : line[i] = "KeyboardInterrupt")
        THEN [none EXCEPT !.put = <<OutputMessage("console", "output",
                                                  <<"KeyboardInterrupt">>)>>,
                          !.set = TRUE]
        ELSE [none EXCEPT !.put = <<OutputMessage("console", "output", line)>>]

\* what a script of three printing commands makes the child print after
\* preprocess_shell: a marker line before each printed line, the end marker last
ThreeLines ==
    << <<"##active_line1##", "\n">>, <<"out", "\n">>,
       <<"##active_line2##", "\n">>, <<"out", "\n">>,
       <<"##active_line3##", "\n">>, <<"out", "\n">>,
       <<EndMarker, "\n">> >>

\* lines a child can print: every combination of the two markers, with and
\* without other text, and a marker at the end of the output without newline
Lines ==
    { <<"##active_line1##", "\n">>, <<"##active_line1##", "out", "\n">>,
      <<"##active_line1##">>, <<"##active_line1##", EndMarker, "\n">>,
      <<EndMarker, "\n">>, <<"out", "\n">>,
      <<"##active_line-1##", EndMarker, "\n">>,
      <<"##active_line-1##", "out", EndMarker, "\n">>,
      <<"##active_line-1##", "KeyboardInterrupt", "\n">>,
      <<"##active_line-1##", "out", "\n">> }

\* start_process: terminate(), Popen and the two reader threads, or Popen raises
StartProcess(started) ==
    IF started
    THEN /\ process' = "alive"
         /\ readers' = [stdout |-> "running", stderr |-> "running"]
    ELSE /\ process' = "None"
         /\ readers' = [stdout |-> "none", stderr |-> "none"]

\* step, lines 65-74: a call of step(); preprocess_code, and start_process
\* when there is no process
StepBegin ==
    /\ step_pc \in {"idle", "returned", "raised"}
    /\ calls < MaxSteps
    /\ calls' = calls + 1
    /\ retries' = 0
    /\ restarts' = 0
    /\ chunk_src' = <<>>
    /\ child' = [mode |-> "none", emitted |-> 0]
    /\ IF process = "None"
       THEN \E started \in BOOLEAN :
               /\ StartProcess(started)
               /\ IF started
                  THEN /\ step_pc' = "write"
                       /\ chunks' = <<>>
                  ELSE /\ step_pc' = "returned"
                       /\ chunks' = <<OutputMessage("console", "output",
                                                    <<"Traceback">>)>>
       ELSE /\ step_pc' = "write"
            /\ chunks' = <<>>
            /\ UNCHANGED <<process, readers>>
    /\ UNCHANGED <<done, output_queue, set_count, puts, lines_read>>
    /\ UNCHANGED <<coreVars, kernelVars, utilVars>>

\* step, lines 76-91: one turn of the write loop
StepWrite ==
    /\ step_pc = "write"
    /\ done' = FALSE
    /\ set_count' = 0
    /\ \E written \in BOOLEAN :
          IF written
          THEN /\ step_pc' = "drain"
               /\ \E mode \in {"three_lines", "free"} :
                     child' = [mode |-> mode, emitted |-> 0]
               /\ UNCHANGED <<process, retries, chunks, readers, restarts>>
          ELSE IF retries + 1 > max_retries
          THEN /\ retries' = retries + 1
               /\ chunks' = Append(chunks, OutputMessage("console", "output",
                                                         <<"Maximum retries reached.">>))
               /\ step_pc' = "returned"
               /\ UNCHANGED <<process, readers, child, restarts>>
          ELSE /\ retries' = retries + 1
               /\ restarts' = restarts + 1
               /\ \E started \in BOOLEAN :
                     /\ StartProcess(started)
                     /\ step_pc' = IF started THEN "write" ELSE "raised"
               /\ UNCHANGED <<chunks, child>>
    /\ UNCHANGED <<output_queue, puts, chunk_src, calls, lines_read>>
    /\ UNCHANGED <<coreVars, kernelVars, utilVars>>

StreamOf(is_error) == IF is_error THEN "stderr" ELSE "stdout"

\* the lines readline can return next on a stream of the child
NextLines(is_error) ==
    IF child.mode = "three_lines"
    THEN IF ~is_error /\ child.emitted < Len(ThreeLines)
         THEN {ThreeLines[child.emitted + 1]} ELSE {}
    ELSE IF child.mode = "free" /\ lines_read < MaxLines THEN Lines ELSE {}

\* handle_stream_output: one line read by the thread of a stream; the line was
\* printed for the code of the latest call of step()
HandleStreamOutput(is_error) ==
    /\ readers[StreamOf(is_error)] = "running"
    /\ \E line \in NextLines(is_error) :
          LET h == HandleLine(line, is_error)
          IN  /\ output_queue' = output_queue \o h.put
              /\ puts' = puts \o [i \in 1..Len(h.put) |->
                                     [msg |-> h.put[i], code |-> calls]]
              /\ done' = (done \/ h.set)
              /\ set_count' = set_count + (IF h.set THEN 1 ELSE 0)
              /\ readers' = IF h.raised
                            THEN [readers EXCEPT ![StreamOf(is_error)] = "dead"]
                            ELSE readers
    /\ child' = [child EXCEPT !.emitted = @ + 1]
    /\ lines_read' = lines_read + (IF child.mode = "free" THEN 1 ELSE 0)
    /\ UNCHANGED <<process, retries, step_pc, chunks, restarts, chunk_src, calls>>
    /\ UNCHANGED <<coreVars, kernelVars, utilVars>>

GetLast(q) == [msg |-> q[Len(q)], rest |-> SubSeq(q, 1, Len(q) - 1), at |-> Len(q)]

\* output_queue.get() of queue.Queue: the oldest message
Get(q) == [msg |-> Head(q), rest |-> Tail(q), at |-> 1]

\* step, lines 93-98: a message taken from the queue is yielded
StepYield ==
    /\ step_pc = "drain"
    /\ output_queue # <<>>
    /\ chunks' = Append(chunks, Get(output_queue).msg)
    /\ output_queue' = Get(output_queue).rest
    /\ chunk_src' = Append(chunk_src, Len(puts) - Len(output_queue) +
                                      Get(output_queue).at)
    /\ UNCHANGED <<process, retries, done, step_pc, readers, child, set_count,
                   restarts, puts, calls, lines_read>>
    /\ UNCHANGED <<coreVars, kernelVars, utilVars>>

DrainLoopEndsWhenEmpty == output_queue = <<>>

\* step, line 93: the while condition is false
DrainLoopEnds == done /\ output_queue = <<>>

StepReturn ==
    /\ step_pc = "drain"
    /\ DrainLoopEnds
    /\ step_pc' = "returned"
    /\ UNCHANGED <<process, retries, done, output_queue, chunks, readers, child,
                   set_count, restarts, puts, chunk_src, calls, lines_read>>
    /\ UNCHANGED <<coreVars, kernelVars, utilVars>>

NextSubprocess ==
    \/ StepBegin
    \/ StepWrite
    \/ HandleStreamOutput(FALSE)
    \/ HandleStreamOutput(TRUE)
    \/ StepYield
    \/ StepReturn

SpecSubprocess == Init /\ [][NextSubprocess]_vars

\* ------------------------------------------- PythonJupyterEnv
MaxRequests == 2     \* calls of step()

MaxOut == 2          \* output messages the kernel publishes for one request

Startup == 0         \* the parent of the messages of kernel start-up

\* a message of the iopub channel; the payload names the request it belongs
\* to, as the text, traceback or image that request produced
Message(parent, msg_type, state, mime, kind) ==
    [parent |-> parent, msg_type |-> msg_type,
     execution_state |-> state, mime |-> mime,
     payload |-> <<kind, parent>>]

Status(parent, state) ==
    Message(parent, "status", state, "", "status")

OutputKinds == {"stream", "error", "display_png", "result_plain", "display_html"}

\* the message the kernel publishes for an output of the code
Output(parent, kind) ==
    CASE kind = "stream" -> Message(parent, "stream", "", "", kind)
      [] kind = "error" -> Message(parent, "error", "", "", kind)
      [] kind = "display_png" -> Message(parent, "display_data", "", "image/png", kind)
      [] kind = "result_plain" ->
             Message(parent, "execute_result", "", "text/plain", kind)
      [] OTHER -> Message(parent, "display_data", "", "text/html", kind)

OutputSeqs ==
    UNION {[1..n -> OutputKinds] : n \in 0..MaxOut}

\* what start_channels and the wait of __init__ can leave on the channel: the
\* busy and idle status of the kernel_info request, or nothing
StartupMessages ==
    {<<>>, <<Status(Startup, "busy"), Status(Startup, "idle")>>}

\* iopub_listener, lines 89-100: the chunks put for a message
ListenerPut(msg) ==
    IF msg.msg_type \in {"stream", "error"}
    THEN <<OutputMessage("console", "output", msg.payload)>>
    ELSE IF msg.msg_type \in {"display_data", "execute_result"}
    THEN IF msg.mime = "image/png"
         THEN <<OutputMessage("image", "base64.png", msg.payload)>>
         ELSE IF msg.mime = "text/plain"
         THEN <<OutputMessage("console", "output", msg.payload)>>
         ELSE <<>>
    ELSE <<>>

\* PythonJupyterEnv.__init__
KernelInit ==
    /\ kernel_pc = "new"
    /\ kernel_pc' = "ready"
    /\ \E startup \in StartupMessages : iopub' = startup
    /\ finish_flag' = FALSE
    /\ msg_queue' = <<>>
    /\ UNCHANGED <<listener, request, published, finished_on, kernel_chunks>>
    /\ UNCHANGED <<coreVars, subprocessVars, utilVars>>

\* step, lines 66-103: the flag is cleared and the listener thread started
KernelStep ==
    /\ kernel_pc = "ready"
    /\ request < MaxRequests
    /\ request' = request + 1
    /\ finish_flag' = FALSE
    /\ listener' = "running"
    /\ kernel_pc' = "started"
    /\ published' = <<>>
    /\ finished_on' = NoRequest
    /\ kernel_chunks' = <<>>
    /\ UNCHANGED <<iopub, msg_queue>>
    /\ UNCHANGED <<coreVars, subprocessVars, utilVars>>

\* step, line 106: kc.execute; the kernel publishes busy, the outputs of the
\* code and idle, all with this request as parent
KernelExecute ==
    /\ kernel_pc = "started"
    /\ \E outs \in OutputSeqs :
          LET msgs == [i \in 1..Len(outs) |-> Output(request, outs[i])]
          IN  /\ iopub' = iopub \o <<Status(request, "busy")>> \o msgs \o
                          <<Status(request, "idle")>>
              /\ published' = msgs
    /\ kernel_pc' = "drain"
    /\ UNCHANGED <<finish_flag, msg_queue, listener, request, finished_on,
                   kernel_chunks>>
    /\ UNCHANGED <<coreVars, subprocessVars, utilVars>>

IdleOfAnyRequest(msg) ==
    msg.msg_type = "status" /\ msg.execution_state = "idle"

\* iopub_listener, lines 76-100: one message taken from the channel
IopubListener ==
    /\ listener = "running"
    /\ iopub # <<>>
    /\ iopub' = Tail(iopub)
    /\ IF IdleOfAnyRequest(Head(iopub))
       THEN /\ finish_flag' = TRUE
            /\ listener' = "ended"
            /\ finished_on' = Head(iopub).parent
            /\ UNCHANGED msg_queue
       ELSE /\ msg_queue' = msg_queue \o ListenerPut(Head(iopub))
            /\ UNCHANGED <<finish_flag, listener, finished_on>>
    /\ UNCHANGED <<kernel_pc, request, published, kernel_chunks>>
    /\ UNCHANGED <<coreVars, subprocessVars, utilVars>>

\* step, lines 109-113: a chunk taken from the queue is yielded
KernelYield ==
    /\ kernel_pc = "drain"
    /\ msg_queue # <<>>
    /\ kernel_chunks' = Append(kernel_chunks, Head(msg_queue))
    /\ msg_queue' = Tail(msg_queue)
    /\ UNCHANGED <<iopub, finish_flag, kernel_pc, listener, request, published,
                   finished_on>>
    /\ UNCHANGED <<coreVars, subprocessVars, utilVars>>

\* step, line 109: the while condition is false and the generator ends
KernelReturn ==
    /\ kernel_pc = "drain"
    /\ finish_flag
    /\ msg_queue = <<>>
    /\ kernel_pc' = "ready"
    /\ UNCHANGED <<iopub, finish_flag, msg_queue, listener, request, published,
                   finished_on, kernel_chunks>>
    /\ UNCHANGED <<coreVars, subprocessVars, utilVars>>

NextKernel ==
    \/ KernelInit
    \/ KernelStep
    \/ KernelExecute
    \/ IopubListener
    \/ KernelYield
    \/ KernelReturn

SpecKernel == Init /\ [][NextKernel]_vars

\* ------------------------------------------- preprocess_shell (bash_env.py)
MaxCodeLines == 3    \* lines of the code passed to preprocess_shell

\* lines of shell code: plain commands, one of them failing, and lines that
\* open or close a multi-line construct
CodeLines ==
    {"echo a", "false", "if true; then", "fi", "for i in 1 2; do", "done",
     "echo a \\", "true &&", "echo a |", "f() {"}

\* the lines on which the pattern of has_multiline_commands matches: a
\* trailing backslash, &&, |, a keyword if/while/for/do/then or an opening
\* bracket at the end of the line
MatchesPattern ==
    {"if true; then", "for i in 1 2; do", "echo a \\", "true &&", "echo a |",
     "f() {"}

has_multiline_commands(script_text) ==
    \E i \in DOMAIN script_text : script_text[i] \in MatchesPattern

\* the line echo "##active_line<n>##"
EchoActiveLine(n) == [cmd |-> "echo", text |-> "##active_line##", n |-> n]

CodeLine(line) == [cmd |-> "code", text |-> line, n |-> 0]

\* the line trap "echo ##end_of_execution##" EXIT
TrapLine == [cmd |-> "trap", text |-> "echo ##end_of_execution## EXIT", n |-> 0]

add_active_line_prints(code) ==
    [k \in 1..(2 * Len(code)) |->
        IF k % 2 = 1 THEN EchoActiveLine((k + 1) \div 2)
        ELSE CodeLine(code[k \div 2])]

\* preprocess_shell, line 47: the code is left without markers
LeftUnmarked(code) == has_multiline_commands(code)

preprocess_shell(code) ==
    <<TrapLine>> \o
    (IF ~LeftUnmarked(code) THEN add_active_line_prints(code)
     ELSE [k \in DOMAIN code |-> CodeLine(code[k])])

Codes == UNION {[1..n -> CodeLines] : n \in 1..MaxCodeLines}

\* Shell.preprocess_code: a call with some code (the function keeps no
\* state, so one call in a behaviour shows every call)
PreprocessCode ==
    /\ shell_out = <<>>
    /\ \E code \in Codes :
          /\ shell_code' = code
          /\ shell_out' = preprocess_shell(code)
    /\ UNCHANGED <<coreVars, subprocessVars, kernelVars, retryVars, foldVars,
                   registryVars>>

NextShell == PreprocessCode

SpecShell == Init /\ [][NextShell]_vars

\* ------------------------------------------- retry_on_failure (utils.py)
MaxTries == 3        \* largest max_tries given to the decorator

\* how an invocation of the wrapped assess_tool can end: the status and score
\* it returns, an Exception (of the LLM call, of _parse_json's result, of a
\* missing key), or an exception that is no Exception, which `except
\* Exception` lets through
Outcomes ==
    {[kind |-> "value", what |-> <<st, sc>>] : st \in JudgeStatuses, sc \in Scores}
    \cup {[kind |-> "Exception", what |-> <<e, 0>>] :
             e \in {"APIError", "TypeError", "KeyError"}}
    \cup {[kind |-> "BaseException", what |-> <<"KeyboardInterrupt", 0>>]}

\* range(1, max_tries + 1)
Attempts(max_tries) == 1..max_tries

IsLastTryNever(attempt, max_tries) == FALSE

\* wrapped, line 277: attempt == max_tries
IsLastTry(attempt, max_tries) == attempt = max_tries

\* a call of wrapped(): the loop is entered, or it has no turn and wrapped
\* returns None
WrappedCall ==
    /\ retry_pc = "idle"
    /\ \E max_tries \in 0..MaxTries :
          /\ retry_budget' = max_tries
          /\ retry_pc' = IF Attempts(max_tries) = {} THEN "returned" ELSE "trying"
    /\ retry_log' = <<>>
    /\ retry_result' = NoResult
    /\ UNCHANGED <<coreVars, subprocessVars, kernelVars, shellVars, foldVars,
                   registryVars>>

\* wrapped, lines 272-278: one turn of the for loop
WrappedTry ==
    /\ retry_pc = "trying"
    /\ LET attempt == Len(retry_log) + 1
       IN  \E outcome \in Outcomes :
              /\ retry_log' = Append(retry_log, outcome)
              /\ IF outcome.kind = "value"
                 THEN /\ retry_pc' = "returned"
                      /\ retry_result' = outcome
                 ELSE IF outcome.kind = "BaseException" \/
                         IsLastTry(attempt, retry_budget)
                 THEN /\ retry_pc' = "raised"
                      /\ retry_result' = outcome
                 ELSE IF attempt + 1 \in Attempts(retry_budget)
                 THEN /\ retry_pc' = "trying"
                      /\ UNCHANGED retry_result
                 ELSE /\ retry_pc' = "returned"
                      /\ UNCHANGED retry_result
    /\ UNCHANGED retry_budget
    /\ UNCHANGED <<coreVars, subprocessVars, kernelVars, shellVars, foldVars,
                   registryVars>>

NextRetry ==
    \/ WrappedCall
    \/ WrappedTry

SpecRetry == Init /\ [][NextRetry]_vars

\* ------------------------------------------- Env.step, stream mode (env.py)
\* A text is the sequence of its pieces, as in the subprocess runner.
MaxChunks == 3       \* chunks of one stream

\* contents of the chunks a runner yields
FoldContents ==
    {<<>>, <<"\n">>, <<"out">>, <<"out", "\n">>, <<"Traceback", "err">>,
     <<"out", "Traceback">>}

\* the chunks of a stream; the content of an active_line chunk is the line
\* number, which the fold never reads
FoldChunks ==
    {[format |-> "active_line", content |-> <<"1">>]} \cup
    {[format |-> "output", content |-> c] : c \in FoldContents}

\* Env.step, line 144: the chunk is passed over
Skipped(chunk) ==
    chunk.format = "active_line" \/ chunk.content \in {<<>>, <<"\n">>}

LooksLikeErrorAtStart(content) == content # <<>> /\ content[1] = "Traceback"

\* Env.step, line 147: "Traceback" in content
LooksLikeError(content) == \E i \in DOMAIN content : content[i] = "Traceback"

\* Env.step, lines 133-143: a call with stream=True
EnvStepStream ==
    /\ fold_pc = "idle"
    /\ fold_pc' = "folding"
    /\ fold_seen' = <<>>
    /\ fold_state' = NewEnvState
    /\ UNCHANGED <<coreVars, subprocessVars, kernelVars, shellVars, retryVars,
                   registryVars>>

\* Env.step, lines 143-150: one chunk of the stream
FoldChunk ==
    /\ fold_pc = "folding"
    /\ Len(fold_seen) < MaxChunks
    /\ \E chunk \in FoldChunks :
          /\ fold_seen' = Append(fold_seen, chunk)
          /\ fold_state' =
                IF Skipped(chunk) THEN fold_state
                ELSE IF LooksLikeError(chunk.content)
                THEN [fold_state EXCEPT !.error = @ \o chunk.content]
                ELSE [fold_state EXCEPT !.result = @ \o chunk.content]
    /\ UNCHANGED fold_pc
    /\ UNCHANGED <<coreVars, subprocessVars, kernelVars, shellVars, retryVars,
                   registryVars>>

\* Env.step, lines 151-162: the stream has ended and the state is returned
EnvStepReturn ==
    /\ fold_pc = "folding"
    /\ fold_pc' = "returned"
    /\ UNCHANGED <<fold_seen, fold_state>>
    /\ UNCHANGED <<coreVars, subprocessVars, kernelVars, shellVars, retryVars,
                   registryVars>>

NextFold ==
    \/ EnvStepStream
    \/ FoldChunk
    \/ EnvStepReturn

SpecFold == Init /\ [][NextFold]_vars

\* ------------------------------------------------- the tool repository
MaxNames == 3        \* names a tool may be registered under
MaxTexts == 2        \* distinct texts of a tool's code and description

\* the metadata handed to register: 'task_name', 'code' and 'description'
Metadata ==
    {[task_name |-> IdNames[i], code |-> t, description |-> t] :
        i \in 1..MaxNames, t \in 1..MaxTexts}

\* dict.pop(k, None), collection.delete(ids=[k]), os.remove of an existing
\* file: k is removed when it is there
Pop(f, k) == [x \in DOMAIN f \ {k} |-> f[x]]

\* register(metadata): the id is deleted from the collection when the name
\* is a key of _records, the description is added under the id, the record
\* is stored; the counts are compared, and only then the two files and
\* component_index.json are written
Register ==
    /\ \E metadata \in Metadata :
          LET ident == metadata.task_name
              deleted == IF ident \in DOMAIN records THEN Pop(index, ident)
                         ELSE index
              added == Put(deleted, ident, metadata.description)
              stored_records == Put(records, ident,
                                    [code |-> metadata.code,
                                     description |-> metadata.description])
              passed == Cardinality(DOMAIN added) =
                            Cardinality(DOMAIN stored_records)
          IN  /\ index' = added
              /\ records' = stored_records
              /\ files' = IF passed THEN Put(files, ident, stored_records[ident])
                          ELSE files
              /\ component_index' = IF passed THEN stored_records
                                    ELSE component_index
              /\ registry_last' = [op |-> "register", name |-> ident,
                                   raised |-> IF passed THEN "none"
                                              ELSE "AssertionError"]
    /\ UNCHANGED <<coreVars, subprocessVars, kernelVars, shellVars, retryVars,
                   foldVars>>

\* discard(label): the id is deleted from the collection when the name is a
\* key of _records; the name is popped from component_index.json and its
\* two files are removed; _records is not touched
Discard ==
    /\ \E name \in {IdNames[i] : i \in 1..MaxNames} :
          /\ index' = IF name \in DOMAIN records THEN Pop(index, name)
                      ELSE index
          /\ component_index' = Pop(component_index, name)
          /\ files' = Pop(files, name)
          /\ registry_last' = [op |-> "discard", name |-> name,
                               raised |-> "none"]
    /\ UNCHANGED records
    /\ UNCHANGED <<coreVars, subprocessVars, kernelVars, shellVars, retryVars,
                   foldVars>>

NextRegistry ==
    \/ Register
    \/ Discard

SpecRegistry == Init /\ [][NextRegistry]_vars

\* ------------------------------------------------------------------ claims
\* _resolve_order was entered by the last call and ran to its end
OrderReturned == last.order_ret \in {"None", CycleMsg}

ScenarioAB ==
    <<[label |-> "A", deps |-> <<>>, type |-> "Shell"],
      [label |-> "B", deps |-> <<"A">>, type |-> "Shell"]>>

\* C1: when the not-done nodes form a DAG, the queue left by _resolve_order
\* is a permutation of exactly the not-done nodes in which every not-done
\* dependency of a node comes before it; {A: [], B: [A]} gives [A, B].
C1_TopologicalOrder ==
    /\ (OrderReturned /\ Acyclic) =>
          /\ Len(execution_queue) = Cardinality(Pending)
          /\ Range(execution_queue) = Pending
          /\ Distinct(execution_queue)
          /\ \A n \in Pending : \A d \in PendingDeps(n) :
                Pos(execution_queue, d) < Pos(execution_queue, n)
    /\ (last.op = "break_down_goal" /\ pre.nodes = {} /\ last.structure = ScenarioAB)
          => execution_queue = <<"A", "B">>

C1_Witness ==
    /\ OrderReturned /\ Acyclic
    /\ Len(execution_queue) = 3
    /\ \E n \in Pending : Cardinality(PendingDeps(n)) = 2

\* C2: when the not-done dependency relation has a cycle, _resolve_order
\* signals a failure to its caller (the call ends with an exception) and never
\* returns normally with a queue shorter than the set of not-done nodes.
C2_CycleSignalled ==
    (last.order_ret # "not_called" /\ ~Acyclic) =>
        /\ last.raised # "none"
        /\ ~(OrderReturned /\ Len(execution_queue) < Cardinality(Pending))

\* C3: every id that is a key or a dependency in dependency_graph is a key of
\* node_map, also after a call that ended in an exception.
C3_EdgesInNodes ==
    \A n \in DOMAIN dependency_graph :
        /\ n \in DOMAIN node_map
        /\ Range(dependency_graph[n]) \subseteq DOMAIN node_map

\* _insert_task_node of the last call ran to its end
MergeCompleted == last.op = "revise_execution_path" /\ last.built

\* C4: a merge that completes leaves the not-done dependency relation
\* acyclic; one that would close a cycle is rejected.
C4_MergeKeepsAcyclic ==
    (MergeCompleted /\ pre.acyclic) => Acyclic

\* C5: after merge(anchor, subgraph) the anchor's edge list is its previous
\* value with the last subgraph id appended, the new nodes' dependencies are
\* all nodes, and the edge lists of the other old nodes are unchanged.
C5_MergeFrame ==
    MergeCompleted =>
        /\ dependency_graph[last.anchor] =
              Append(pre.dependency_graph[last.anchor],
                     last.structure[Len(last.structure)].label)
        /\ \A i \in 1..Len(last.structure) :
              Range(last.structure[i].deps) \subseteq DOMAIN node_map
        /\ \A n \in pre.nodes \ {last.anchor} :
              dependency_graph[n] = pre.dependency_graph[n]

HasUnknownDep(structure) ==
    \E i \in 1..Len(structure) :
        ~(Range(structure[i].deps) \subseteq Range(Labels(structure)))

\* C6: build(spec) fails when an entry lists a dependency id that is not a
\* key of the spec.
C6_UnknownDepFails ==
    (last.op = "break_down_goal" /\ HasUnknownDep(last.structure)) => ~last.built

\* C7: build(spec) succeeds on every spec whose dependency ids are all keys
\* of the spec, whatever the order of the entries, and then nodes, edges and
\* next_action hold the spec.
C7_BuildSucceeds ==
    (last.op = "break_down_goal" /\ ~HasUnknownDep(last.structure)) =>
        /\ last.built
        /\ \A i \in 1..Len(last.structure) :
              LET e == last.structure[i]
              IN  /\ e.label \in DOMAIN node_map
                  /\ dependency_graph[e.label] = e.deps
                  /\ \A d \in Range(e.deps) : e.label \in node_map[d].next_action

AllDepsDone(n) ==
    /\ n \in DOMAIN dependency_graph
    /\ \A d \in Range(dependency_graph[n]) :
          d \in DOMAIN node_map /\ node_map[d].status

\* C8: after _resolve_order no done node is in the queue, and a not-done node
\* whose dependencies are all done is in the queue with only such nodes
\* before it.
C8_DoneNotQueuedNotBlocking ==
    OrderReturned =>
        /\ \A i \in 1..Len(execution_queue) :
              ~node_map[execution_queue[i]].status
        /\ \A n \in Pending : AllDepsDone(n) =>
              /\ n \in Range(execution_queue)
              /\ \A j \in 1..Len(execution_queue) :
                    j < Pos(execution_queue, n) => PendingDeps(execution_queue[j]) = {}

C8_Witness ==
    /\ OrderReturned
    /\ \E n \in Pending :
          /\ AllDepsDone(n)
          /\ dependency_graph[n] # <<>>
          /\ n \in Range(execution_queue)
    /\ \E m \in Pending : PendingDeps(m) # {}

Max(S) == CHOOSE x \in S : \A y \in S : y <= x

MinOf(S) == CHOOSE x \in S : \A y \in S : x <= y

\* the queue position at which the last not-done dependency of n was emitted
\* (0 for a node with none): the moment n became ready
ReadyAt(n) ==
    Max({0} \cup {Pos(execution_queue, d) : d \in PendingDeps(n) \cap Range(execution_queue)})

\* when the first loop of _resolve_order first touched n: at its own turn in
\* dependency_graph, or earlier as the i-th parent of another not-done node
FirstTouch(n) ==
    LET W == MaxTasks + MaxDeps + 2
        asParent == UNION {{Pos(dep_keys, c) * W + i :
                              i \in {k \in DOMAIN dependency_graph[c] :
                                        dependency_graph[c][k] = n}} : c \in Pending}
    IN  MinOf({Pos(dep_keys, n) * W} \cup asParent)

Discovered(n) == IF ReadyAt(n) = 0 THEN FirstTouch(n) ELSE Pos(dep_keys, n)

\* C9: the queue is in FIFO order of readiness: a node that became ready
\* earlier is emitted earlier, and nodes that became ready at the same moment
\* are emitted in the order in which they were discovered.
C9_FifoOrder ==
    OrderReturned =>
        \A i, j \in 1..Len(execution_queue) : i < j =>
            LET x == execution_queue[i]
                y == execution_queue[j]
            IN  /\ ReadyAt(x) <= ReadyAt(y)
                /\ ReadyAt(x) = ReadyAt(y) => Discovered(x) < Discovered(y)

C9_Witness ==
    /\ OrderReturned
    /\ Len(execution_queue) = 3
    /\ \E n \in Pending : PendingDeps(n) # {} /\ ReadyAt(n) = 1
    /\ ReadyAt(execution_queue[2]) = 0

\* C10: a Python/Shell/AppleScript node is marked done only after the judge
\* was invoked on its latest execution (in particular when that execution
\* left no error).
C10_JudgedBeforeDone ==
    (last.op = "patch_tool_info" /\ node_map[last.anchor].node_type \in CodeTypes)
        => judged

C10_Witness ==
    /\ last.op = "patch_tool_info"
    /\ node_map[last.anchor].node_type \in CodeTypes
    /\ judged
    /\ repair_attempts > 0
    /\ execution_state = ExecState("None")

\* C11: a Python/Shell/AppleScript node whose execution attempt left a
\* non-empty error is routed to Amend without a judge call on that attempt,
\* for the first execution and for the executions of the repair loop.
C11_NoJudgeOnError ==
    (sub # NoId /\ execution_state = ExecState("stderr")) => ~judged

\* C12: a judgement Error (an unrecognised status, or a judge call that
\* raised) aborts the node: it is not marked done and the run halts.
C12_ErrorAborts ==
    (last.op = "patch_tool_info" /\ node_map[last.anchor].node_type \in CodeTypes)
        => status # "Error"

\* C13: the repair loop of one subtask takes at most max_iter turns
\* (repair_tool, execute_tool, judge_tool) and is always left, whatever the
\* judge answers and whatever the executions return.
C13_RepairBoundedAndEnds ==
    /\ [](repair_attempts <= max_iter)
    /\ (phase = "repairing" /\ LoopCondition) ~> ~(phase = "repairing" /\ LoopCondition)

C13_Witness ==
    /\ last.op = "failed"
    /\ status = "Amend"
    /\ repair_attempts = max_iter

C15_ReplanRequeues ==
    (last.op = "revise_execution_path") =>
        /\ last.built
        /\ ~node_map[last.anchor].status
        /\ last.anchor \in Range(execution_queue)
        /\ LET final_label == last.structure[Len(last.structure)].label
           IN  /\ final_label \in Range(execution_queue)
               /\ Pos(execution_queue, final_label) < Pos(execution_queue, last.anchor)

\* C16: a node judged Complete is marked done, its return value is what
\* extract_information takes from the execution output, it is not queued any
\* more, and the run goes on.
C16_CompleteStoresReturnValue ==
    (/\ last.op = "patch_tool_info"
     /\ node_map[last.anchor].node_type \in CodeTypes
     /\ status = "Complete"
     /\ result # "") =>
        /\ node_map[last.anchor].status
        /\ node_map[last.anchor].return_val = ExtractInformation(result)
        /\ last.anchor \notin Range(execution_queue)
        /\ phase = "running"

\* C17: processing a QA node always ends with the node marked done, and
\* neither the judge nor the repair loop is entered for it.
C17_QaCompleteUnjudged ==
    (/\ sub \in DOMAIN node_map
     /\ node_map[sub].node_type = "QA"
     /\ last.anchor = sub
     /\ last.op \in {"judging", "repairing", "repair_iteration", "aborted",
                     "failed", "patch_tool_info"}) =>
        /\ last.op = "patch_tool_info"
        /\ ~judged
        /\ repair_attempts = 0

\* C18: the code generated for an API node is handed to the execution
\* environment once and the node is resolved from that one execution,
\* without judge and without repair loop.
C18_ApiExecutedOnce ==
    (/\ sub \in DOMAIN node_map
     /\ node_map[sub].node_type = "API"
     /\ last.anchor = sub
     /\ last.op \in {"executing", "judging", "repairing", "repair_iteration",
                     "aborted", "failed", "patch_tool_info"}) =>
        /\ execution_state.ret = "ExecutionState"
        /\ last.op \in {"executing", "patch_tool_info"}
        /\ ~judged
        /\ repair_attempts = 0

\* C19: a Python node that ends Complete with a judge score of at least the
\* threshold is in the tool repository, whether Complete came from the first
\* judgement or from a judgement of the repair loop.
C19_StoredOnComplete ==
    (/\ last.op = "patch_tool_info"
     /\ node_map[last.anchor].node_type = "Python"
     /\ status = "Complete"
     /\ score >= ScoreThreshold) =>
        last.anchor \in stored

\* C20: the tool repository is written only for the current node, and only
\* when that node is Python-typed, judged Complete with a score of at least
\* the threshold, and marked done by the same step.
C20_StoreOnlyGoodPython ==
    [][stored' # stored =>
          /\ stored' = stored \cup {sub}
          /\ node_map[sub].node_type = "Python"
          /\ status = "Complete"
          /\ judged
          /\ score >= ScoreThreshold
          /\ node_map'[sub].status]_vars

C20_Witness ==
    /\ last.op = "patch_tool_info"
    /\ last.anchor \in stored
    /\ node_map[last.anchor].node_type = "Python"
    /\ status = "Complete"
    /\ score >= ScoreThreshold

\* C21: right after the reset that opens a run() the planner holds no node,
\* no edge, no queued id and a zero task counter, and the monologue result
\* is empty, whatever the run before left behind.
C21_RunStartsEmpty ==
    (last.op = "clear_state") =>
        /\ task_total = 0
        /\ node_map = <<>>
        /\ dependency_graph = <<>>
        /\ dep_keys = <<>>
        /\ execution_queue = <<>>
        /\ inner_monologue = ""
        /\ sub = NoId

C21_Witness ==
    /\ last.op = "clear_state"
    /\ pre.nodes # {}
    /\ pre.dependency_graph # <<>>
    /\ node_map = <<>>

\* C27: a collaborator call that still fails after its retries ends the
\* processing of the current subtask only, and no exception leaves run().
C27_NoExceptionLeavesRun ==
    (last.op = "aborted") => phase # "raised"

\* an answer without a parseable JSON block was handed to the planner
NoJsonAnswer(l) ==
    /\ l.op \in {"break_down_goal", "revise_execution_path"}
    /\ l.raised \in {"AttributeError", "SystemExit"}

\* C28 as stated: an answer without JSON leaves graph and queue as they were,
\* the planner call raises nothing and the process goes on.
C28_NoJsonNoException ==
    NoJsonAnswer(last) =>
        /\ last.raised = "none"
        /\ DOMAIN node_map = pre.nodes
        /\ dependency_graph = pre.dependency_graph
        /\ phase \in {"planning", "running"}

\* C28, amended: an answer without JSON changes neither the graph nor the
\* queue, and the exception it raises in the planner is contained by
\* planning() (after the retries) and replanning(): the run goes on, the
\* process is not exited.
C28_NoJsonContained ==
    [][NoJsonAnswer(last') /\ last' # last =>
          /\ UNCHANGED <<plannerVars, execution_queue>>
          /\ phase' \in {"planning", "running"}
          /\ last'.raised = "AttributeError"]_vars

C28_Witness ==
    /\ last.op = "break_down_goal"
    /\ last.raised = "AttributeError"
    /\ attempts = MaxRetries
    /\ phase = "running"
    /\ node_map = <<>>

\* C29: a turn of the repair loop whose execution left no error (an empty
\* error text) invokes the judge on that execution; Complete or Replan ends
\* the loop with that status, any other answer leaves Amend.
C29_JudgedWhenNoError ==
    (last.op = "repair_iteration" /\ execution_state = ExecState("")) => judged

\* C30: a turn of the repair loop whose execution left a non-empty error
\* does not invoke the judge and leaves the status Amend, so the loop is
\* never left with Complete or Replan after a failing execution.
C30_ErrorStaysAmend ==
    (/\ last.op \in {"repair_iteration", "failed", "patch_tool_info",
                     "revise_execution_path"}
     /\ last.anchor = sub
     /\ repair_attempts > 0
     /\ execution_state = ExecState("stderr")) =>
        /\ ~judged
        /\ status = "Amend"
        /\ last.op \in {"repair_iteration", "failed"}

C30_Witness ==
    /\ last.op = "repair_iteration"
    /\ execution_state = ExecState("stderr")
    /\ repair_attempts > 1
    /\ status = "Amend"
    /\ ~judged

\* ------------------------------------------- claims about the subprocess runner
\* the line numbers of the active_line chunks of a stream, in order
ActiveLineNumbers(cs) ==
    LET a == SelectSeq(cs, LAMBDA c : c.format = "active_line")
    IN  [i \in 1..Len(a) |-> a[i].content]

\* the content chunks of a stream that carry printed text
PrintedChunks(cs) ==
    SelectSeq(cs, LAMBDA c : c.format = "output" /\
                             \E i \in DOMAIN c.content : c.content[i] = "out")

HasMarker(content) ==
    \E i \in DOMAIN content : content[i] \in ActiveLinePattern \cup {EndMarker}

NoMarkerInContent(cs) ==
    \A i \in DOMAIN cs : cs[i].format = "output" => ~HasMarker(cs[i].content)

\* the three-line script has been written, and neither the reader of stdout
\* nor step() can take another step
ThreeLinesOver ==
    /\ child.mode = "three_lines"
    /\ readers.stdout # "running" \/ child.emitted = Len(ThreeLines)
    /\ output_queue = <<>>
    /\ step_pc = "returned" \/ (step_pc = "drain" /\ ~done)

\* C22: for code that prints exactly 3 lines, the stream of step() has exactly
\* the active_line chunks 1, 2, 3 and the content chunks of the three lines,
\* the completion signal is raised exactly once, step() returns, and no
\* content holds marker text.
C22_ThreeLinesStream ==
    ThreeLinesOver =>
        /\ ActiveLineNumbers(chunks) = <<1, 2, 3>>
        /\ Len(PrintedChunks(chunks)) = 3
        /\ set_count = 1
        /\ step_pc = "returned"
        /\ NoMarkerInContent(chunks)

\* C23: whatever markers a line read from the child carries, no content chunk
\* put on the queue or yielded holds "##end_of_execution##" or an
\* "##active_line<N>##" marker.
C23_NoMarkerForwarded == NoMarkerInContent(chunks \o output_queue)

FailureChunk ==
    OutputMessage("console", "output", <<"Maximum retries reached.">>)

\* C24: a failed write restarts the process and retries, with at most
\* max_retries restarts; when the budget is used up step() yields exactly one
\* failure chunk and returns; step() never raises, also when a restart fails.
C24_WriteFailureContained ==
    /\ restarts <= max_retries
    /\ step_pc # "raised"
    /\ (step_pc = "returned" /\ retries > max_retries) =>
           (restarts = max_retries /\ chunks = <<FailureChunk>>)

\* C25 as stated: step() returns only after the completion flag has been set.
C25_ReturnsOnlyWhenDone == step_pc = "returned" => done

\* C25: once the code has been written to the child, step() returns only
\* after a reader thread has set the completion flag and the queue is empty;
\* while the flag is not set the drain loop does not end.
C25_DrainEndsOnlyWhenDone ==
    /\ [](step_pc = "returned" /\ child.mode # "none" => done /\ set_count >= 1)
    /\ [][step_pc = "drain" /\ step_pc' = "returned" =>
            done /\ output_queue = <<>>]_vars

C25_Witness ==
    /\ step_pc = "returned"
    /\ child.mode = "free"
    /\ done
    /\ set_count = 1
    /\ Len(chunks) > 0

\* ------------------------------------------- claims about the kernel runner
\* the chunk the claim names for a stream, error or image message
ChunkFor(msg) ==
    IF msg.mime = "image/png"
    THEN OutputMessage("image", "base64.png", msg.payload)
    ELSE OutputMessage("console", "output", msg.payload)

Forwardable ==
    SelectSeq(published, LAMBDA msg : msg.payload[1] \in
                                          {"stream", "error", "display_png"})

\* a call of step() has returned
StepFinished == kernel_pc = "ready" /\ request > 0

\* C26: when step() finishes, every stream, image and error message of its
\* own execute request has been yielded as its chunk, in order, and the idle
\* message that ended it was the one of that request, not one of kernel
\* start-up or of an earlier request.
C26_FinishesOnOwnIdle ==
    StepFinished =>
        /\ finished_on = request
        /\ SelectSeq(kernel_chunks,
                     LAMBDA c : c.content[2] = request /\
                                c.content[1] \in {"stream", "error", "display_png"})
               = [i \in 1..Len(Forwardable) |-> ChunkFor(Forwardable[i])]

\* the messages step() has taken from the queue are consecutive entries of
\* puts, in the order of their enqueueing, and every later entry is still
\* on the queue
TakenInOrder ==
    Len(chunk_src) > 0 =>
        /\ Len(chunks) = Len(chunk_src)
        /\ \A i \in DOMAIN chunk_src : chunks[i] = puts[chunk_src[i]].msg
        /\ \A i \in 1..(Len(chunk_src) - 1) : chunk_src[i + 1] = chunk_src[i] + 1
        /\ chunk_src[Len(chunk_src)] = Len(puts) - Len(output_queue)

\* C31 as stated: with the reader threads running, step() returns only in a
\* state where the completion flag is set and the queue is empty.
C31_ReturnsDoneAndEmpty ==
    [][(step_pc # "returned" /\ step_pc' = "returned" /\ readers'.stdout # "none")
          => (done' /\ output_queue' = <<>>)]_vars

\* C31: with the reader threads running, step() yields the chunks in the
\* order in which they were enqueued, and once the code has been written it
\* returns only when the completion flag is set and the queue is empty, so
\* that every chunk enqueued until then has been yielded.
C31_FifoDrain ==
    /\ []TakenInOrder
    /\ [][(step_pc = "drain" /\ step_pc' = "returned") =>
             /\ done /\ output_queue = <<>>
             /\ \A i \in DOMAIN puts :
                   puts[i].code = calls =>
                       \E j \in DOMAIN chunk_src : chunk_src[j] = i]_vars

C31_Witness ==
    /\ step_pc = "returned"
    /\ child.mode = "free"
    /\ done
    /\ Len(chunk_src) >= 2
    /\ output_queue = <<>>

\* C37: every chunk that a call of step() takes from the queue was printed
\* for the code of that call; output enqueued after an earlier call ended is
\* never yielded by a later call.
C37_OwnChunksOnly ==
    \A i \in DOMAIN chunk_src : puts[chunk_src[i]].code = calls

\* ------------------------------------------- claims about preprocess_shell
\* line i of the code follows directly the command that echoes marker i
MarkedBefore(i) ==
    \E k \in 2..Len(shell_out) :
        /\ shell_out[k] = CodeLine(shell_code[i])
        /\ shell_out[k - 1] = EchoActiveLine(i)

\* C32: for every code, also code with multi-line constructs, each line i of
\* the code handed back by preprocess_shell is directly preceded by the
\* command that emits "##active_line<i>##", and the command that emits the
\* end marker occurs exactly once.
C32_EveryLineMarked ==
    shell_out # <<>> =>
        /\ \A i \in DOMAIN shell_code : MarkedBefore(i)
        /\ Cardinality({k \in DOMAIN shell_out : shell_out[k] = TrapLine}) = 1

\* ------------------------------------------- claims about retry_on_failure
AllRaised == \A i \in DOMAIN retry_log : retry_log[i].kind # "value"

\* C33: the decorator invokes the wrapped call at most max_tries times; it
\* returns the value of the first invocation that does not raise and invokes
\* nothing after it; when all max_tries invocations raise, the last exception
\* is raised to the caller.
C33_BoundedRetry ==
    /\ Len(retry_log) <= retry_budget
    /\ \A i \in 1..(Len(retry_log) - 1) : retry_log[i].kind # "value"
    /\ (retry_log # <<>> /\ ~AllRaised) =>
           /\ retry_pc = "returned"
           /\ retry_result = retry_log[Len(retry_log)]
    /\ (retry_budget > 0 /\ Len(retry_log) = retry_budget /\ AllRaised) =>
           /\ retry_pc = "raised"
           /\ retry_result = retry_log[Len(retry_log)]

C33_Witness ==
    /\ retry_pc = "raised"
    /\ retry_budget = 3
    /\ Len(retry_log) = 3
    /\ \A i \in DOMAIN retry_log : retry_log[i].kind = "Exception"
    /\ retry_result = retry_log[3]

\* ------------------------------------------- claims about Env.step
RECURSIVE Concat(_)
Concat(contents) ==
    IF contents = <<>> THEN <<>> ELSE Head(contents) \o Concat(Tail(contents))

ContentsOf(cs) == [i \in DOMAIN cs |-> cs[i].content]

\* the chunks the fold has to keep: no active_line chunk, no empty content,
\* no lone newline
Kept ==
    SelectSeq(fold_seen, LAMBDA c : c.format # "active_line" /\
                                    c.content # <<>> /\ c.content # <<"\n">>)

HasTraceback(c) == \E i \in DOMAIN c.content : c.content[i] = "Traceback"

\* C34: the fold passes over active_line chunks and chunks whose content is
\* empty or a lone newline, and appends the content of every other chunk, in
\* arrival order, to error when it contains 'Traceback' and to result
\* otherwise: nothing is dropped and nothing is in both.
C34_FoldPartitions ==
    /\ fold_state.error = Concat(ContentsOf(SelectSeq(Kept, HasTraceback)))
    /\ fold_state.result =
           Concat(ContentsOf(SelectSeq(Kept, LAMBDA c : ~HasTraceback(c))))
    /\ Len(fold_state.error) + Len(fold_state.result) = Len(Concat(ContentsOf(Kept)))

C34_Witness ==
    /\ fold_pc = "returned"
    /\ Len(fold_seen) = 3
    /\ fold_seen[1].format = "active_line"
    /\ fold_seen[2].content = <<"out", "Traceback">>
    /\ fold_seen[3].content = <<"out", "\n">>
    /\ fold_state = [result |-> <<"out", "\n">>, error |-> <<"out", "Traceback">>]

\* ------------------------------------------- claims about the whole run
\* C35: when run() has popped a node from the ready queue, every id in the
\* node's edge list is a node whose status is done.
C35_DepsDoneAtPop ==
    phase = "executing" =>
        \A d \in Range(dependency_graph[sub]) :
            d \in DOMAIN node_map /\ node_map[d].status

\* C36: run() terminates whatever the judge answers: a run that has its
\* plan and is in its loop eventually leaves the loop.
C36_RunTerminates == (phase = "running") ~> (phase = "idle")

\* C38: edges and next_action mirror each other; in particular, after a
\* completed merge(anchor, subgraph) the anchor is one of the successors
\* (next_action) of the last inserted node, which the merge appended to the
\* anchor's edge list.
C38_MergeMirrors ==
    MergeCompleted =>
        LET final_label == last.structure[Len(last.structure)].label
        IN  /\ final_label \in Range(dependency_graph[last.anchor])
            /\ last.anchor \in node_map[final_label].next_action

\* C39: within one run completion is monotonic: no step of the loop of
\* run() takes a node that is done back to not-done or changes its stored
\* return value, whatever ids a merged patch names.
C39_CompletionMonotonic ==
    [][phase = "running" =>
          \A n \in DOMAIN node_map :
              node_map[n].status =>
                  /\ n \in DOMAIN node_map'
                  /\ node_map'[n].status
                  /\ node_map'[n].return_val = node_map[n].return_val]_vars

\* ------------------------------------- claims about the tool repository
\* C40: after any sequence of register and discard calls the collection of
\* the vector index holds as many entries as _records, and no call of
\* register has failed its count assertion.
C40_CountsAgree ==
    /\ Cardinality(DOMAIN index) = Cardinality(DOMAIN records)
    /\ registry_last.raised = "none"
====
